---- MODULE Spec2Model ----
(***************************************************************************)
(* Model of the chart-specification execution engine of                    *)
(* src/src/datapipe/viz_executor.py: apply_filters, aggregate_dataframe    *)
(* and execute_chart_spec, over small pandas-like tables.                  *)
(*                                                                         *)
(* A cell is a number (a rational n/d), a text or a null (NaN/None).  A    *)
(* table is an ordered list of column names and an ordered list of rows,   *)
(* each row a function from column name to cell.  A call ends in one of    *)
(* three ways: it returns a table, it returns None (the code's failure     *)
(* value), or it raises.                                                   *)
(***************************************************************************)
EXTENDS Integers, Sequences, FiniteSets, TLC

VARIABLES
    call,         \* which function the caller invoked
    pc,           \* position inside that function
    df,           \* the caller's table
    spec,         \* the caller's chart specification
    df_filtered,  \* execute_chart_spec: result of step 1
    df_agg,       \* execute_chart_spec: result of step 2
    value_col,    \* execute_chart_spec: result of step 3
    result,       \* what the call returned (or that it raised)
    stages,       \* execute_chart_spec: the steps run so far, in order
    plot,         \* execute_chart_spec: how step 4 ended
    figures,      \* matplotlib.pyplot's open figures; the last one is current
    th,           \* concurrent invocations of execute_chart_spec, per thread
    caller        \* progress of a caller of execute_chart_spec

vars == <<call, pc, df, spec, df_filtered, df_agg, value_col, result, stages, plot,
          figures, th, caller>>

(***************************************************************************)
(* Bounds of the model.                                                    *)
(***************************************************************************)
MaxRows == 2
MaxFilters == 2

(***************************************************************************)
(* Cells.                                                                  *)
(***************************************************************************)
Rat(n, d) == [k |-> "num", n |-> n, d |-> d, s |-> ""]
Num(n) == Rat(n, 1)
Str(s) == [k |-> "str", n |-> 0, d |-> 1, s |-> s]
Null == [k |-> "null", n |-> 0, d |-> 1, s |-> ""]

\* Python values of the untrusted specification fields.
PyStr(s) == [t |-> "str", s |-> s]
PyInt(s) == [t |-> "int", s |-> s]
PyNone == [t |-> "none", s |-> ""]
PyAbsent == [t |-> "absent", s |-> ""]

\* The filters field: a list of predicates, or a value that is no list.
PyList(items) == [t |-> "list", s |-> "", items |-> items]
NotAList(v) == [t |-> v.t, s |-> v.s, items |-> <<>>]

\* The three ways a call ends.
NoTable == [cols |-> <<>>, rows |-> <<>>]
Returned(t) == [kind |-> "table", table |-> t]
ReturnedNone == [kind |-> "none", table |-> NoTable]
Raised == [kind |-> "raise", table |-> NoTable]
Pending == [kind |-> "pending", table |-> NoTable]

Range(s) == {s[i] : i \in DOMAIN s}

(***************************************************************************)
(* Ordering of cells.  Python orders texts lexicographically; TextRank     *)
(* gives the position of each text of the model in that order.             *)
(***************************************************************************)
TextRank ==
    ("10" :> 1) @@ ("20" :> 2) @@ ("5" :> 3) @@ ("A" :> 4) @@ ("B" :> 5) @@ ("x" :> 6)

\* a < b for two cells of the same kind (numbers as rationals, texts by rank)
SameKindLess(a, b) ==
    IF a.k = "num" THEN a.n * b.d < b.n * a.d
    ELSE IF a.k = "str" THEN TextRank[a.s] < TextRank[b.s]
    ELSE FALSE

\* pandas ==: a null equals nothing, cells of different kinds are unequal
CellEq(a, b) ==
    /\ a.k = b.k
    /\ a.k # "null"
    /\ IF a.k = "num" THEN a.n * b.d = b.n * a.d ELSE a.s = b.s

(***************************************************************************)
(* apply_filters (viz_executor.py:6-33)                                    *)
(***************************************************************************)
\* pandas dtype inference (the callers build df with pd.read_csv): a column
\* holding only numbers and nulls (NaN) is a numeric column, any other column is
\* an object column; the columns of a table without rows are object columns.
NumericCols(t) ==
    {c \in Range(t.cols) :
        /\ t.rows # <<>>
        /\ \A i \in DOMAIN t.rows : t.rows[i][c].k \in {"num", "null"}}

IsOrderingOp(op) == op \in {">", "<", ">=", "<="}

\* Series <op> value raises TypeError: a numeric column against a text, or an
\* object column with a non-null cell whose type differs from the value's.
ComparisonRaises(t, numeric, col, op, value) ==
    /\ IsOrderingOp(op)
    /\ IF col \in numeric
       THEN value.k # "num"
       ELSE \E i \in DOMAIN t.rows :
                /\ t.rows[i][col].k # "null"
                /\ t.rows[i][col].k # value.k

\* one element of the boolean mask Series <op> value
MaskAt(cell, op, value) ==
    CASE op = "==" -> CellEq(cell, value)
      [] op = "!=" -> ~CellEq(cell, value)
      [] op = ">"  -> cell.k = value.k /\ SameKindLess(value, cell)
      [] op = "<"  -> cell.k = value.k /\ SameKindLess(cell, value)
      [] op = ">=" -> cell.k = value.k /\ ~SameKindLess(cell, value) /\ cell.k # "null"
      [] op = "<=" -> cell.k = value.k /\ ~SameKindLess(value, cell) /\ cell.k # "null"
      [] OTHER -> TRUE

\* filtered_df[mask]: the rows whose mask element is True, in order
SelectRows(t, col, op, value) ==
    [t EXCEPT !.rows = SelectSeq(t.rows, LAMBDA r : MaskAt(r[col], op, value))]

\* one iteration of the loop of lines 10-31 on the current filtered_df
FilterStep(t, numeric, f) ==
    IF f.column \notin Range(t.cols) THEN Returned(t)
    ELSE IF f.op \notin {"==", "!=", ">", "<", ">=", "<="} THEN Returned(t)
    ELSE IF ComparisonRaises(t, numeric, f.column, f.op, f.value) THEN Raised
    ELSE Returned(SelectRows(t, f.column, f.op, f.value))

RECURSIVE FilterLoop(_, _, _)
FilterLoop(t, numeric, fs) ==
    IF fs = <<>> THEN Returned(t)
    ELSE LET r == FilterStep(t, numeric, Head(fs))
         IN IF r.kind = "raise" THEN Raised
            ELSE FilterLoop(r.table, numeric, Tail(fs))

\* filters is the Python value passed in: a list, or None (not iterable)
apply_filters(t, filters) ==
    IF filters.t # "list" THEN Raised
    ELSE FilterLoop(t, NumericCols(t), filters.items)

(***************************************************************************)
(* Conversions used by aggregate_dataframe.                                *)
(***************************************************************************)
\* str.lower() on the aggregation tokens of the model
Lower(s) ==
    CASE s = "MEAN" -> "mean"
      [] s = "Mean" -> "mean"
      [] s = "SUM" -> "sum"
      [] s = "Count" -> "count"
      [] s = "NONE" -> "none"
      [] s = "AVG" -> "avg"
      [] OTHER -> s

\* the texts of the model that parse as a number, with their value
TextToNumber == ("10" :> 10) @@ ("20" :> 20) @@ ("5" :> 5)

\* pd.to_numeric(..., errors="coerce") on one cell
ToNumeric(c) ==
    IF c.k = "num" THEN c
    ELSE IF c.k = "str" /\ c.s \in DOMAIN TextToNumber THEN Num(TextToNumber[c.s])
    ELSE Null

\* df[y] = pd.to_numeric(df[y], errors="coerce")
CoerceColumn(t, y) ==
    [t EXCEPT !.rows = [i \in DOMAIN t.rows |-> [t.rows[i] EXCEPT ![y] = ToNumeric(@)]]]

\* dropna left out: every row is kept
DropNa_KeepAll(t, y) == t

\* df.dropna(subset=[y])
DropNa(t, y) ==
    [t EXCEPT !.rows = SelectSeq(t.rows, LAMBDA r : r[y].k # "null")]

\* df.empty
IsEmpty(t) == t.rows = <<>> \/ t.cols = <<>>

RECURSIVE GCD(_, _)
GCD(a, b) == IF b = 0 THEN a ELSE GCD(b, a % b)

\* the rational n/d in lowest terms (n >= 0, d > 0)
Frac(n, d) == LET g == GCD(n, d) IN Rat(n \div g, d \div g)

(***************************************************************************)
(* The reductions of Series.agg on the y cells of one group.               *)
(***************************************************************************)
NonNull(cells) == SelectSeq(cells, LAMBDA c : c.k # "null")

RECURSIVE SumCells(_)
SumCells(cells) ==
    IF cells = <<>> THEN 0 ELSE Head(cells).n + SumCells(Tail(cells))

\* the cells in ascending order (numbers only)
RECURSIVE SortCells(_)
SortCells(cells) ==
    IF cells = <<>> THEN <<>>
    ELSE LET m == CHOOSE i \in DOMAIN cells :
                      \A j \in DOMAIN cells : ~SameKindLess(cells[j], cells[i])
             rest == [j \in 1..(Len(cells) - 1) |->
                          IF j < m THEN cells[j] ELSE cells[j + 1]]
         IN <<cells[m]>> \o SortCells(rest)

Reduce(func, cells) ==
    LET v == NonNull(cells)
        n == Len(v)
        sorted == SortCells(v)
    IN CASE func = "count" -> Num(n)
         [] func = "sum" -> Num(SumCells(v))
         [] n = 0 -> Null
         [] func = "mean" -> Frac(SumCells(v), n)
         [] func = "min" -> sorted[1]
         [] func = "max" -> sorted[n]
         [] func = "median" ->
                IF n % 2 = 1 THEN sorted[(n + 1) \div 2]
                ELSE Frac(sorted[n \div 2].n + sorted[n \div 2 + 1].n, 2)

(***************************************************************************)
(* groupby(group_cols, dropna=False): the distinct keys in sorted order.   *)
(* Numbers sort before texts and nulls come last.                          *)
(***************************************************************************)
KindRank(c) == IF c.k = "num" THEN 1 ELSE IF c.k = "str" THEN 2 ELSE 3

CellLess(a, b) ==
    \/ KindRank(a) < KindRank(b)
    \/ a.k = b.k /\ SameKindLess(a, b)

KeyLess(a, b) ==
    \E i \in DOMAIN a :
        /\ CellLess(a[i], b[i])
        /\ \A j \in 1..(i - 1) : a[j] = b[j]

RowKey(r, group_cols) == [i \in DOMAIN group_cols |-> r[group_cols[i]]]

RECURSIVE SortKeys(_)
SortKeys(keys) ==
    IF keys = {} THEN <<>>
    ELSE LET m == CHOOSE a \in keys : \A b \in keys : ~KeyLess(b, a)
         IN <<m>> \o SortKeys(keys \ {m})

\* dropna=False left out: the keys with a null are dropped (pandas' default)
GroupKeys_DropNa(t, group_cols) ==
    SortKeys({k \in {RowKey(t.rows[i], group_cols) : i \in DOMAIN t.rows} :
                 \A j \in DOMAIN k : k[j].k # "null"})

GroupKeys(t, group_cols) ==
    SortKeys({RowKey(t.rows[i], group_cols) : i \in DOMAIN t.rows})

\* the y cells of the rows of one group, in row order
GroupCells(t, group_cols, key, y) ==
    LET members == SelectSeq(t.rows, LAMBDA r : RowKey(r, group_cols) = key)
    IN [i \in DOMAIN members |-> members[i][y]]

(***************************************************************************)
(* aggregate_dataframe (viz_executor.py:36-118)                            *)
(***************************************************************************)
\* Python truthiness of a specification field
Truthy(v) == (v.t = "str" /\ v.s # "") \/ v.t = "int"

\* spec.get("aggregation", "none")
GetAggregation(sp) ==
    IF sp.aggregation.t = "absent" THEN PyStr("none") ELSE sp.aggregation

\* lines 50-54: lower-case a string token, anything else becomes "none"
NormalizeAgg(a) == IF a.t = "str" THEN Lower(a.s) ELSE "none"

\* lines 84-87 without `group_by not in group_cols`
GroupCols_NoDedup(t, sp) ==
    IF /\ Truthy(sp.group_by)
       /\ sp.group_by.t = "str"
       /\ sp.group_by.s \in Range(t.cols)
    THEN <<sp.x, sp.group_by.s>>
    ELSE <<sp.x>>

\* lines 84-87
GroupCols(t, sp) ==
    IF /\ Truthy(sp.group_by)
       /\ sp.group_by.t = "str"
       /\ sp.group_by.s \in Range(t.cols)
       /\ sp.group_by.s # sp.x
    THEN <<sp.x, sp.group_by.s>>
    ELSE <<sp.x>>

AggMapKeys == {"sum", "mean", "average", "count", "max", "min", "median"}

\* lines 90-105: the pandas reduction chosen for a normalized token
AggFunc(agg) ==
    IF agg \notin AggMapKeys THEN "mean"
    ELSE IF agg = "average" THEN "mean"
    ELSE agg

\* lines 100-103: the token used in the column name
AggName(agg) == IF agg \notin AggMapKeys THEN "mean" ELSE agg

\* line 107
NewColName(agg, y) == AggName(agg) \o "_" \o y

\* lines 109-115: groupby(...)[y].agg(agg_func).reset_index(name=new_col_name)
GroupAggregate(t, group_cols, y, func, new_col) ==
    LET keys == GroupKeys(t, group_cols)
        out_cols == group_cols \o <<new_col>>
    IN  [cols |-> out_cols,
         rows |-> [i \in DOMAIN keys |->
                     [c \in Range(out_cols) |->
                        IF c = new_col
                        THEN Reduce(func, GroupCells(t, group_cols, keys[i], y))
                        ELSE LET j == CHOOSE j \in DOMAIN group_cols : group_cols[j] = c
                             IN keys[i][j]]]]

aggregate_dataframe(t, sp) ==
    LET agg == NormalizeAgg(GetAggregation(sp))
        coerced == CoerceColumn(t, sp.y)
        kept == IF agg # "count" THEN DropNa(coerced, sp.y) ELSE coerced
        group_cols == GroupCols(kept, sp)
        new_col == NewColName(agg, sp.y)
    IN  IF sp.x \notin Range(t.cols) THEN ReturnedNone
        ELSE IF sp.y \notin Range(t.cols) THEN ReturnedNone
        ELSE IF agg \in {"none", ""} THEN Returned(coerced)
        ELSE IF agg # "count" /\ IsEmpty(kept) THEN ReturnedNone
        \* reset_index cannot insert a column that already exists: ValueError,
        \* caught at line 116
        ELSE IF new_col \in Range(group_cols) THEN ReturnedNone
        ELSE Returned(GroupAggregate(kept, group_cols, sp.y, AggFunc(agg), new_col))

(***************************************************************************)
(* execute_chart_spec (viz_executor.py:121-194), step by step.             *)
(***************************************************************************)
\* spec.get("filters", [])
GetFilters(sp) ==
    IF sp.filters.t = "absent" THEN PyList(<<>>) ELSE sp.filters

\* line 150: `agg and agg.lower() not in (...)` raises AttributeError when agg
\* is truthy and not a string
ResolveRaises(a) == Truthy(a) /\ a.t # "str"

\* lines 150-153, with agg the raw token of the specification
ResolveValueCol(a, y) ==
    IF Truthy(a) /\ Lower(a.s) \notin {"none", ""} THEN a.s \o "_" \o y ELSE y

(***************************************************************************)
(* Inputs.                                                                 *)
(***************************************************************************)
InputCols == <<"category", "price">>

CategoryCells == {Str("A"), Str("B")}
PriceCells == {Num(5), Str("10"), Str("x"), Null}

RowKinds == {[c \in Range(InputCols) |-> IF c = "category" THEN cat ELSE pr] :
                cat \in CategoryCells, pr \in PriceCells}

RowSeqs == UNION {[1..n -> RowKinds] : n \in 0..MaxRows}

Tables == {[cols |-> InputCols, rows |-> rs] : rs \in RowSeqs}

\* filter predicates: every operator, on matching and on mismatching types,
\* and one on a column the table does not have
Predicates ==
    {[column |-> "category", op |-> "==", value |-> Str("A")],
     [column |-> "category", op |-> "!=", value |-> Str("A")],
     [column |-> "category", op |-> "<", value |-> Str("B")],
     [column |-> "category", op |-> ">", value |-> Num(5)],
     [column |-> "price", op |-> ">=", value |-> Num(5)],
     [column |-> "price", op |-> "<=", value |-> Str("10")],
     [column |-> "nope", op |-> "==", value |-> Str("A")]}

FilterLists == {PyList(fs) : fs \in UNION {[1..n -> Predicates] : n \in 0..MaxFilters}}

AggTokens ==
    {"none", "NONE", "", "sum", "SUM", "mean", "MEAN", "Mean", "average", "count",
     "Count", "min", "max", "median", "avg", "AVG"}

AggValues == {PyStr(a) : a \in AggTokens} \cup {PyNone, PyAbsent, PyInt("5")}

ChartSpec(ct, x, y, a, g, f) ==
    [chart_type |-> ct, x |-> x, y |-> y, aggregation |-> a, group_by |-> g,
     filters |-> f]

\* no caller of execute_chart_spec is running
NoCaller == [insights |-> "not_invoked", serialized |-> FALSE, outcome |-> "pending"]

\* the variables a single call starts with, whatever its inputs
InitCall ==
    /\ df_filtered = NoTable
    /\ df_agg = NoTable
    /\ value_col = ""
    /\ result = Pending
    /\ stages = <<>>
    /\ plot = ""
    /\ figures = <<>>
    /\ th = <<>>
    /\ caller = NoCaller

\* line 8: the loop works on df.copy(), so the argument keeps its value
ArgAfterFilters(t, filters) == t

\* line 66 left out: df[y] = ... of line 67 writes into the argument
ArgAfterAggregate_NoCopy(t, sp) ==
    IF sp.x \in Range(t.cols) /\ sp.y \in Range(t.cols) THEN CoerceColumn(t, sp.y) ELSE t

\* line 66: df = df.copy() before the first assignment, so the argument keeps
\* its value
ArgAfterAggregate(t, sp) == t

(***************************************************************************)
(* apply_filters called on its own.                                        *)
(***************************************************************************)
InitFilters ==
    /\ call = "apply_filters"
    /\ pc = "start"
    /\ df \in Tables
    /\ spec \in {ChartSpec(PyStr("bar"), "category", "price", PyStr("none"), PyNone, f) :
                    f \in FilterLists}
    /\ InitCall

ApplyFiltersCall ==
    /\ call = "apply_filters"
    /\ pc = "start"
    /\ result' = apply_filters(df, spec.filters)
    /\ df' = ArgAfterFilters(df, spec.filters)
    /\ pc' = "done"
    /\ UNCHANGED <<call, spec, df_filtered, df_agg, value_col, stages, plot, figures,
                   th, caller>>

NextFilters == ApplyFiltersCall

SpecFilters == InitFilters /\ [][NextFilters]_vars

(***************************************************************************)
(* aggregate_dataframe called on its own.                                  *)
(***************************************************************************)
GroupByValues == {PyNone, PyStr("category"), PyStr("price"), PyStr("nope")}

InitAggregate ==
    /\ call = "aggregate_dataframe"
    /\ pc = "start"
    /\ df \in Tables
    /\ spec \in {ChartSpec(PyStr("bar"), x, y, a, g, PyList(<<>>)) :
                    x \in {"category", "nope"}, y \in {"price", "category", "nope"},
                    a \in AggValues, g \in GroupByValues}
    /\ InitCall

AggregateCall ==
    /\ call = "aggregate_dataframe"
    /\ pc = "start"
    /\ result' = aggregate_dataframe(df, spec)
    /\ df' = ArgAfterAggregate(df, spec)
    /\ pc' = "done"
    /\ UNCHANGED <<call, spec, df_filtered, df_agg, value_col, stages, plot, figures,
                   th, caller>>

NextAggregate == AggregateCall

SpecAggregate == InitAggregate /\ [][NextAggregate]_vars

(***************************************************************************)
(* aggregate_dataframe on tables whose grouping column has nulls, with     *)
(* every kind of group_by.                                                 *)
(***************************************************************************)
GroupRowKinds ==
    {[c \in Range(InputCols) |-> IF c = "category" THEN cat ELSE pr] :
        cat \in CategoryCells \cup {Null}, pr \in PriceCells}

GroupTables ==
    {[cols |-> InputCols, rows |-> rs] :
        rs \in UNION {[1..n -> GroupRowKinds] : n \in 0..MaxRows}}

AllGroupByValues ==
    {PyAbsent, PyNone, PyStr(""), PyInt("5"), PyStr("nope"), PyStr("category"),
     PyStr("price")}

InitGroup ==
    /\ call = "aggregate_dataframe"
    /\ pc = "start"
    /\ df \in GroupTables
    /\ spec \in {ChartSpec(PyStr("bar"), x, "price", a, g, PyList(<<>>)) :
                    x \in {"category", "price"},
                    a \in {PyStr("sum"), PyStr("SUM"), PyStr("count"), PyStr("mean"),
                           PyStr("none")},
                    g \in AllGroupByValues}
    /\ InitCall

SpecGroup == InitGroup /\ [][NextAggregate]_vars

(***************************************************************************)
(* execute_chart_spec, one action per numbered step of the function.       *)
(***************************************************************************)
ExecFilterValues ==
    {PyList(<<>>), NotAList(PyAbsent), NotAList(PyNone),
     PyList(<<[column |-> "category", op |-> "==", value |-> Str("A")]>>),
     PyList(<<[column |-> "price", op |-> ">=", value |-> Num(5)]>>),
     PyList(<<[column |-> "nope", op |-> "==", value |-> Str("A")]>>)}

Init ==
    /\ call = "execute_chart_spec"
    /\ pc = "filter"
    /\ df \in Tables
    /\ spec \in {ChartSpec(PyStr("bar"), x, y, a, PyNone, f) :
                    x \in {"category", "nope"}, y \in {"price", "nope"},
                    a \in AggValues, f \in ExecFilterValues}
    /\ InitCall

\* the check of line 155 left out
ValueColPresent_Always(t, col) == TRUE

\* line 155
ValueColPresent(t, col) == col \in Range(t.cols)

\* the filter yields nothing: the check of lines 138 and 145 left out
IsEmptyResult_Never(t) == FALSE

\* lines 138 and 145: df_filtered.empty, df_agg.empty
IsEmptyResult(t) == IsEmpty(t)

\* lines 135-140
ExecFilter ==
    /\ call = "execute_chart_spec"
    /\ pc = "filter"
    /\ LET r == apply_filters(df, GetFilters(spec))
       IN  IF r.kind = "raise"
           THEN /\ result' = Raised
                /\ pc' = "done"
                /\ UNCHANGED df_filtered
           ELSE IF IsEmptyResult(r.table)
           THEN /\ result' = ReturnedNone
                /\ pc' = "done"
                /\ UNCHANGED df_filtered
           ELSE /\ df_filtered' = r.table
                /\ pc' = "aggregate"
                /\ UNCHANGED result
    /\ df' = ArgAfterFilters(df, GetFilters(spec))
    /\ stages' = Append(stages, "filter")
    /\ UNCHANGED <<call, spec, df_agg, value_col, plot, figures, th, caller>>

\* lines 142-147
ExecAggregate ==
    /\ call = "execute_chart_spec"
    /\ pc = "aggregate"
    /\ LET r == aggregate_dataframe(df_filtered, spec)
       IN  IF r.kind = "none" \/ IsEmptyResult(r.table)
           THEN /\ result' = ReturnedNone
                /\ pc' = "done"
                /\ UNCHANGED df_agg
           ELSE /\ df_agg' = r.table
                /\ pc' = "resolve"
                /\ UNCHANGED result
    /\ df_filtered' = ArgAfterAggregate(df_filtered, spec)
    /\ stages' = Append(stages, "aggregate")
    /\ UNCHANGED <<call, df, spec, value_col, plot, figures, th, caller>>

\* lines 149-157
ExecResolve ==
    /\ call = "execute_chart_spec"
    /\ pc = "resolve"
    /\ LET a == GetAggregation(spec)
           col == ResolveValueCol(a, spec.y)
       IN  IF ResolveRaises(a)
           THEN /\ result' = Raised
                /\ pc' = "done"
                /\ UNCHANGED value_col
           ELSE IF ~ValueColPresent(df_agg, col)
           THEN /\ value_col' = col
                /\ result' = ReturnedNone
                /\ pc' = "done"
           ELSE /\ value_col' = col
                /\ pc' = "plot"
                /\ UNCHANGED result
    /\ stages' = Append(stages, "resolve")
    /\ UNCHANGED <<call, df, spec, df_filtered, df_agg, plot, figures, th, caller>>

(***************************************************************************)
(* Step 4, the plot (lines 159-192).  matplotlib.pyplot keeps its figures  *)
(* in one registry of the process; plt.figure() adds a figure and makes it *)
(* current, the drawing calls draw on the current figure, plt.close()      *)
(* closes the current figure.                                              *)
(***************************************************************************)
\* lines 163, 170, 177, 184: the chart types that draw something
RecognizedChart(ct) == ct.t = "str" /\ ct.s \in {"bar", "line", "scatter", "histogram"}

\* plt.figure(figsize=(6, 4)) called by invocation who
OpenFigure(figs, who) == Append(figs, [owner |-> who, drawn |-> {}])

\* plt.bar / plt.plot / plt.scatter / plt.hist by invocation who: on the
\* current figure, or on a new one when no figure is open
DrawOnCurrent(figs, who) ==
    IF figs = <<>> THEN <<[owner |-> who, drawn |-> {who}]>>
    ELSE [figs EXCEPT ![Len(figs)].drawn = @ \cup {who}]

\* plt.close(): closes the current figure, if any
CloseCurrent(figs) == IF figs = <<>> THEN figs ELSE SubSeq(figs, 1, Len(figs) - 1)

\* lines 160-190 without an exception: the figure is opened, drawn on when the
\* chart type is one of the four, and closed
ExecPlot ==
    /\ call = "execute_chart_spec"
    /\ pc = "plot"
    /\ IF RecognizedChart(spec.chart_type)
       THEN /\ figures' = CloseCurrent(DrawOnCurrent(OpenFigure(figures, 0), 0))
            /\ plot' = "drawn"
       ELSE /\ figures' = CloseCurrent(OpenFigure(figures, 0))
            /\ plot' = "nothing"
    /\ pc' = "return"
    /\ stages' = Append(stages, "plot")
    /\ UNCHANGED <<call, df, spec, df_filtered, df_agg, value_col, result, th, caller>>

\* lines 160-192 with an exception, which line 191 catches: raised by
\* plt.figure (no figure was opened) or by a drawing call (the figure stays
\* open, plt.close() of line 190 is skipped)
ExecPlotFails ==
    /\ call = "execute_chart_spec"
    /\ pc = "plot"
    /\ \E at \in {"figure", "draw"} :
          /\ at = "draw" => RecognizedChart(spec.chart_type)
          /\ figures' = IF at = "draw" THEN OpenFigure(figures, 0) ELSE figures
    /\ plot' = "failed"
    /\ pc' = "return"
    /\ stages' = Append(stages, "plot")
    /\ UNCHANGED <<call, df, spec, df_filtered, df_agg, value_col, result, th, caller>>

\* the exception of the plot is not caught and ends the call
ReturnValue_PlotFailureRaises(t, how) == IF how = "failed" THEN Raised ELSE Returned(t)

\* lines 191-194: whatever the plot did, df_agg is returned
ReturnValue(t, how) == Returned(t)

\* line 194
ExecReturn ==
    /\ call = "execute_chart_spec"
    /\ pc = "return"
    /\ result' = ReturnValue(df_agg, plot)
    /\ pc' = "done"
    /\ stages' = Append(stages, "emit")
    /\ UNCHANGED <<call, df, spec, df_filtered, df_agg, value_col, plot, figures, th,
                   caller>>

Next ==
    ExecFilter \/ ExecAggregate \/ ExecResolve \/ ExecPlot \/ ExecPlotFails \/ ExecReturn

Spec == Init /\ [][Next]_vars

(***************************************************************************)
(* execute_chart_spec over every chart type.                               *)
(***************************************************************************)
ChartTypes ==
    {PyStr("bar"), PyStr("line"), PyStr("scatter"), PyStr("histogram"), PyStr("pie"),
     PyNone, PyInt("5")}

InitRender ==
    /\ call = "execute_chart_spec"
    /\ pc = "filter"
    /\ df \in Tables
    /\ spec \in {ChartSpec(ct, x, "price", a, PyNone, f) :
                    ct \in ChartTypes, x \in {"category", "nope"},
                    a \in {PyStr("none"), PyStr("mean"), PyStr("MEAN"), PyStr("count"),
                           PyStr("sum"), PyInt("5")},
                    f \in {PyList(<<>>),
                           PyList(<<[column |-> "category", op |-> "==",
                                     value |-> Str("A")]>>),
                           PyList(<<[column |-> "price", op |-> ">=",
                                     value |-> Num(5)]>>)}}
    /\ InitCall

SpecRender == InitRender /\ [][Next]_vars

(***************************************************************************)
(* Any of the three functions, called by a caller that keeps its table and *)
(* its specification.                                                      *)
(***************************************************************************)
InitAny == InitFilters \/ InitAggregate \/ Init

NextAny ==
    \/ ApplyFiltersCall
    \/ AggregateCall
    \/ ExecFilter
    \/ ExecAggregate
    \/ ExecResolve
    \/ ExecPlot
    \/ ExecPlotFails
    \/ ExecReturn

SpecAny == InitAny /\ [][NextAny]_vars

\* the outcome of execute_chart_spec(t, sp) as one function of its inputs
execute_chart_spec(t, sp) ==
    LET f == apply_filters(t, GetFilters(sp))
        g == aggregate_dataframe(f.table, sp)
        a == GetAggregation(sp)
    IN  IF f.kind = "raise" THEN Raised
        ELSE IF IsEmptyResult(f.table) THEN ReturnedNone
        ELSE IF g.kind = "none" \/ IsEmptyResult(g.table) THEN ReturnedNone
        ELSE IF ResolveRaises(a) THEN Raised
        ELSE IF ~ValueColPresent(g.table, ResolveValueCol(a, sp.y)) THEN ReturnedNone
        ELSE Returned(g.table)

(***************************************************************************)
(* Several invocations of execute_chart_spec, one per thread, on           *)
(* independent (table, spec) pairs.  Lines 135-157 work on the thread's    *)
(* own values; the plt.* calls of lines 160-190 work on pyplot's           *)
(* module-level figure registry, whose current figure is the one opened    *)
(* last by any thread.                                                     *)
(***************************************************************************)
Threads == {1, 2}

ThreadInputs ==
    {[df |-> t, spec |-> ChartSpec(ct, "category", "price", PyStr("mean"), PyNone,
                                   PyList(<<>>))] :
        t \in {u \in Tables : Len(u.rows) = 1}, ct \in {PyStr("bar"), PyStr("pie")}}

\* the owner of the current figure, if any
CurrentOwner(figs) == IF figs = <<>> THEN {} ELSE {figs[Len(figs)].owner}

InitThreads ==
    /\ call = "threads"
    /\ pc = "threads"
    /\ df = [cols |-> InputCols, rows |-> <<>>]
    /\ spec = ChartSpec(PyStr("bar"), "category", "price", PyStr("mean"), PyNone,
                        PyList(<<>>))
    /\ df_filtered = NoTable
    /\ df_agg = NoTable
    /\ value_col = ""
    /\ result = Pending
    /\ stages = <<>>
    /\ plot = ""
    /\ figures = <<>>
    /\ caller = NoCaller
    /\ th \in [Threads -> {[pc |-> "start", df |-> in.df, spec |-> in.spec,
                            df_agg |-> NoTable, result |-> Pending, touched |-> {}] :
                              in \in ThreadInputs}]

ThreadVarsUnchanged ==
    UNCHANGED <<call, pc, df, spec, df_filtered, df_agg, value_col, result, stages, plot,
                caller>>

\* lines 135-157 in thread t: filter, aggregate, resolve, on its own values
T_Local(t) ==
    /\ call = "threads"
    /\ th[t].pc = "start"
    /\ LET o == execute_chart_spec(th[t].df, th[t].spec)
       IN  th' = IF o.kind = "table"
                 THEN [th EXCEPT ![t].pc = "figure", ![t].df_agg = o]
                 ELSE [th EXCEPT ![t].pc = "done", ![t].result = o]
    /\ UNCHANGED figures
    /\ ThreadVarsUnchanged

\* line 161 in thread t
T_Figure(t) ==
    /\ call = "threads"
    /\ th[t].pc = "figure"
    /\ figures' = OpenFigure(figures, t)
    /\ th' = [th EXCEPT ![t].pc = IF RecognizedChart(th[t].spec.chart_type)
                                  THEN "draw" ELSE "close"]
    /\ ThreadVarsUnchanged

\* lines 163-188 in thread t: the drawing calls go to the current figure
T_Draw(t) ==
    /\ call = "threads"
    /\ th[t].pc = "draw"
    /\ figures' = DrawOnCurrent(figures, t)
    /\ th' = [th EXCEPT ![t].pc = "close",
                        ![t].touched = @ \cup CurrentOwner(figures)]
    /\ ThreadVarsUnchanged

\* lines 163-188 in thread t raise, line 191 catches: line 190 is skipped
T_PlotFails(t) ==
    /\ call = "threads"
    /\ th[t].pc = "draw"
    /\ th' = [th EXCEPT ![t].pc = "return"]
    /\ UNCHANGED figures
    /\ ThreadVarsUnchanged

\* line 190 in thread t: plt.close() closes the current figure
T_Close(t) ==
    /\ call = "threads"
    /\ th[t].pc = "close"
    /\ figures' = CloseCurrent(figures)
    /\ th' = [th EXCEPT ![t].pc = "return",
                        ![t].touched = @ \cup CurrentOwner(figures)]
    /\ ThreadVarsUnchanged

\* line 194 in thread t
T_Return(t) ==
    /\ call = "threads"
    /\ th[t].pc = "return"
    /\ th' = [th EXCEPT ![t].pc = "done", ![t].result = ReturnValue(th[t].df_agg.table, "")]
    /\ UNCHANGED figures
    /\ ThreadVarsUnchanged

NextThreads ==
    \E t \in Threads :
        T_Local(t) \/ T_Figure(t) \/ T_Draw(t) \/ T_PlotFails(t) \/ T_Close(t) \/ T_Return(t)

SpecThreads == InitThreads /\ [][NextThreads]_vars

(***************************************************************************)
(* The callers of execute_chart_spec: run_full_analysis (pipeline.py) and  *)
(* the /chart endpoint get_chart_and_insights (app.py).                    *)
(***************************************************************************)
Callers == {"run_full_analysis", "get_chart_and_insights"}

InitCallers ==
    /\ call \in Callers
    /\ pc = "execute"
    /\ df \in Tables
    /\ spec \in {ChartSpec(PyStr("bar"), x, "price", a, PyNone, PyList(<<>>)) :
                    x \in {"category", "nope"},
                    a \in {PyStr("mean"), PyStr("count"), PyStr("none"), PyInt("5")}}
    /\ InitCall

\* pipeline.py line 47, app.py line 72: an exception of the call is not caught
CallerExecute ==
    /\ call \in Callers
    /\ pc = "execute"
    /\ result' = execute_chart_spec(df, spec)
    /\ IF result'.kind = "raise"
       THEN pc' = "done" /\ caller' = [caller EXCEPT !.outcome = "fault"]
       ELSE pc' = "insights" /\ UNCHANGED caller
    /\ UNCHANGED <<call, df, spec, df_filtered, df_agg, value_col, stages, plot, figures,
                   th>>

\* pipeline.py line 50, app.py line 75: generate_insights is called with
\* whatever was returned; insight.py line 19 calls agg_df.to_dict, which None
\* does not have
CallerInsights ==
    /\ call \in Callers
    /\ pc = "insights"
    /\ IF result.kind = "none"
       THEN /\ caller' = [caller EXCEPT !.insights = "invoked", !.outcome = "fault"]
            /\ pc' = "done"
       ELSE /\ caller' = [caller EXCEPT !.insights = "returned"]
            /\ pc' = IF call = "get_chart_and_insights" THEN "serialize" ELSE "return"
    /\ UNCHANGED <<call, df, spec, df_filtered, df_agg, value_col, result, stages, plot,
                   figures, th>>

\* app.py line 78: agg_df.to_dict(orient="records"), reached only after
\* generate_insights has returned
CallerSerialize ==
    /\ call = "get_chart_and_insights"
    /\ pc = "serialize"
    /\ caller' = [caller EXCEPT !.serialized = TRUE]
    /\ pc' = "return"
    /\ UNCHANGED <<call, df, spec, df_filtered, df_agg, value_col, result, stages, plot,
                   figures, th>>

\* pipeline.py lines 52-60, app.py lines 80-86
CallerReturn ==
    /\ call \in Callers
    /\ pc = "return"
    /\ caller' = [caller EXCEPT !.outcome = "returned"]
    /\ pc' = "done"
    /\ UNCHANGED <<call, df, spec, df_filtered, df_agg, value_col, result, stages, plot,
                   figures, th>>

NextCallers == CallerExecute \/ CallerInsights \/ CallerSerialize \/ CallerReturn

SpecCallers == InitCallers /\ [][NextCallers]_vars

(***************************************************************************)
(* Properties.                                                             *)
(***************************************************************************)
FiltersDone == call = "apply_filters" /\ pc = "done"
AggregateDone == call = "aggregate_dataframe" /\ pc = "done"
ExecDone == call = "execute_chart_spec" /\ pc = "done"

IsToken(a) == a.t = "str" /\ Lower(a.s) \notin {"none", ""}
LastCol(t) == t.cols[Len(t.cols)]

\* C1: whenever aggregate_dataframe succeeds with an aggregation token T other
\* than none/empty, the measure column of the returned table is named exactly
\* lowercase(T) + "_" + y.
C1_MeasureColumnNamedByToken ==
    (AggregateDone /\ result.kind = "table" /\ IsToken(spec.aggregation))
        => LastCol(result.table) = Lower(spec.aggregation.s) \o "_" \o spec.y

\* C2: with an unrecognized non-empty aggregation token, on a table where x and
\* y exist and the filtered table has a numeric y, execute_chart_spec does not
\* fail: it returns the table of the arithmetic mean.
C2_UnrecognizedTokenYieldsMean ==
    LET f == apply_filters(df, GetFilters(spec))
    IN  (/\ ExecDone
         /\ IsToken(spec.aggregation)
         /\ Lower(spec.aggregation.s) \notin AggMapKeys
         /\ spec.x \in Range(df.cols)
         /\ spec.y \in Range(df.cols)
         /\ f.kind = "table"
         /\ \E i \in DOMAIN f.table.rows : ToNumeric(f.table.rows[i][spec.y]).k = "num")
        => result = aggregate_dataframe(f.table, [spec EXCEPT !.aggregation = PyStr("mean")])

\* C3: two specifications that differ only in the letter case of the
\* aggregation token have the same outcome: the outcome of execute_chart_spec
\* equals its outcome on the specification with the token lower-cased.
C3_TokenCaseInsensitive ==
    (ExecDone /\ spec.aggregation.t = "str")
        => result = execute_chart_spec(df,
                        [spec EXCEPT !.aggregation = PyStr(Lower(spec.aggregation.s))])

\* C4: no partial success: whenever execute_chart_spec returns a table, the
\* table is non-empty and contains the value column resolved from the
\* specification's aggregation and y.
C4_NoPartialSuccess ==
    (ExecDone /\ result.kind = "table")
        => /\ ~IsEmpty(result.table)
           /\ value_col = ResolveValueCol(GetAggregation(spec), spec.y)
           /\ value_col \in Range(result.table.cols)

\* C4 witness: a table was returned for a real aggregation
C4_Witness ==
    /\ ExecDone
    /\ result.kind = "table"
    /\ spec.aggregation = PyStr("mean")
    /\ value_col = "mean_price"

\* C5: execute_chart_spec never raises: every execution ends in a returned
\* table or in a returned failure.
C5_NeverRaises == ExecDone => result.kind \in {"table", "none"}

\* C6: if x or y of the specification is not a column of the table,
\* execute_chart_spec returns a failure, for every aggregation token.
C6_MissingColumnFails ==
    (ExecDone /\ (spec.x \notin Range(df.cols) \/ spec.y \notin Range(df.cols)))
        => result.kind = "none"

NumericAggs == {"sum", "mean", "average", "min", "max", "median"}

\* no row of table t has a y that coerces to a number
NoNumericY(t, y) ==
    \A i \in DOMAIN t.rows : ToNumeric(t.rows[i][y]).k # "num"

\* C7: for a numeric aggregation, if no row of the filtered table has a y value
\* that coerces to a number, the execution returns a failure; a zero-row table
\* is never returned as a success.
C7_NoNumericDataFails ==
    LET f == apply_filters(df, GetFilters(spec))
    IN  /\ (/\ ExecDone
            /\ spec.aggregation.t = "str"
            /\ Lower(spec.aggregation.s) \in NumericAggs
            /\ spec.y \in Range(df.cols)
            /\ f.kind = "table"
            /\ NoNumericY(f.table, spec.y))
           => result.kind = "none"
        /\ (ExecDone /\ result.kind = "table") => result.table.rows # <<>>

\* C7 witness: the filter kept rows, none of them numeric in y, and the sum
\* ended in a failure
C7_Witness ==
    /\ ExecDone
    /\ spec.aggregation = PyStr("sum")
    /\ spec.x = "category"
    /\ spec.y = "price"
    /\ df_filtered.rows # <<>>
    /\ NoNumericY(df_filtered, "price")
    /\ result.kind = "none"

\* C8: for aggregation = count, the count of each group of the result equals
\* the number of rows of the filtered table in that group, whatever their y.
C8_CountCountsRows ==
    (/\ ExecDone
     /\ result.kind = "table"
     /\ spec.aggregation.t = "str"
     /\ Lower(spec.aggregation.s) = "count")
        => \A i \in DOMAIN result.table.rows :
              LET row == result.table.rows[i]
                  members == {j \in DOMAIN df_filtered.rows :
                                 df_filtered.rows[j][spec.x] = row[spec.x]}
              IN row[LastCol(result.table)] = Num(Cardinality(members))

\* a row satisfies every predicate whose column exists
SatisfiesAll(r, cols, fs) ==
    \A k \in DOMAIN fs :
        fs[k].column \in Range(cols) => MaskAt(r[fs[k].column], fs[k].op, fs[k].value)

\* C9: apply_filters returns exactly the rows of the input table that satisfy
\* every predicate whose column exists, in their original order and with all
\* columns; so the row count does not grow and an empty list changes nothing.
C9_FilterReturnsMatchingRows ==
    FiltersDone
        => /\ result.kind = "table"
           /\ result.table =
                 [df EXCEPT !.rows =
                     SelectSeq(df.rows,
                               LAMBDA r : SatisfiesAll(r, df.cols, spec.filters.items))]
           /\ Len(result.table.rows) <= Len(df.rows)
           /\ (spec.filters.items = <<>> => result.table = df)

\* an ordering comparison of predicate f meets a cell of another type in t
Mismatch(t, f) ==
    /\ IsOrderingOp(f.op)
    /\ f.column \in Range(t.cols)
    /\ \E i \in DOMAIN t.rows :
          t.rows[i][f.column].k \notin {"null", f.value.k}

\* C10: an ordering comparison between a cell and a predicate value of
\* non-comparable types does not raise: the call returns a table, and no row
\* with such a cell is selected.
C10_TypeMismatchSelectsNothing ==
    (FiltersDone /\ \E k \in DOMAIN spec.filters.items : Mismatch(df, spec.filters.items[k]))
        => /\ result.kind = "table"
           /\ \A k \in DOMAIN spec.filters.items :
                 ~Mismatch(result.table, spec.filters.items[k])

\* the number of columns of table t named c
CountCols(t, c) == Cardinality({i \in DOMAIN t.cols : t.cols[i] = c})

\* C11: for every successful aggregation with a token T other than none and
\* measure column Y, the result has no column named plain Y and exactly one
\* column named lowercase(T)_Y, for every x and group_by, group_by = Y included.
C11_NoPlainMeasureColumn ==
    (AggregateDone /\ result.kind = "table" /\ IsToken(spec.aggregation))
        => /\ CountCols(result.table, spec.y) = 0
           /\ CountCols(result.table, Lower(spec.aggregation.s) \o "_" \o spec.y) = 1

\* the set of values of column c of table t
ColumnValues(t, c) == {t.rows[i][c] : i \in DOMAIN t.rows}

\* C12: after execute_chart_spec with aggregation "mean", x = category,
\* y = price, no group_by and no filters on a table of numeric prices, the
\* result has exactly the distinct categories of the input and a column "price".
C12_TestMeanPriceByCategory ==
    (/\ ExecDone
     /\ spec.aggregation = PyStr("mean")
     /\ spec.x = "category"
     /\ spec.y = "price"
     /\ spec.group_by = PyNone
     /\ GetFilters(spec) = PyList(<<>>)
     /\ df.rows # <<>>
     /\ \A i \in DOMAIN df.rows : df.rows[i]["price"].k = "num")
        => /\ result.kind = "table"
           /\ ColumnValues(result.table, "category") = ColumnValues(df, "category")
           /\ "price" \in Range(result.table.cols)

\* which `return None` of aggregate_dataframe a call takes (lines 59, 63, 82,
\* 118), or "" when it returns a table
AggregateFailure(t, sp) ==
    LET agg == NormalizeAgg(GetAggregation(sp))
    IN  IF aggregate_dataframe(t, sp).kind # "none" THEN ""
        ELSE IF sp.x \notin Range(t.cols) \/ sp.y \notin Range(t.cols) THEN "MissingColumn"
        ELSE IF agg # "count" /\ IsEmpty(DropNa(CoerceColumn(t, sp.y), sp.y))
             THEN "NoNumericData"
        ELSE "AggregationError"

\* which `return None` of execute_chart_spec a call takes (lines 140, 147, 157),
\* named by the failure kinds of the error taxonomy; "" when it does not fail
FailureKind(t, sp) ==
    LET f == apply_filters(t, GetFilters(sp))
        g == aggregate_dataframe(f.table, sp)
    IN  IF execute_chart_spec(t, sp).kind # "none" THEN ""
        ELSE IF IsEmpty(f.table) THEN "NoDataAfterFilter"
        ELSE IF g.kind = "none" THEN AggregateFailure(f.table, sp)
        ELSE IF IsEmpty(g.table) THEN "NoDataAfterAggregation"
        ELSE "ValueColumnMissing"

\* one failing call of each other kind
FailureExamples ==
    LET t == [cols |-> InputCols,
              rows |-> <<[c \in Range(InputCols) |->
                            IF c = "category" THEN Str("A") ELSE Str("x")]>>]
        u == [cols |-> InputCols,
              rows |-> <<[c \in Range(InputCols) |->
                            IF c = "category" THEN Str("A") ELSE Num(5)]>>]
        sp(y, a) == ChartSpec(PyStr("bar"), "category", y, PyStr(a), PyNone, PyList(<<>>))
    IN  {[df |-> t, spec |-> sp("nope", "mean")],
         [df |-> t, spec |-> sp("price", "sum")],
         [df |-> u, spec |-> sp("price", "MEAN")]}

\* C13: the failure returned by execute_chart_spec carries its kind: the value
\* returned for NoDataAfterFilter differs from the values returned for
\* MissingColumn, NoNumericData and ValueColumnMissing.
C13_FailureCarriesKind ==
    (ExecDone /\ FailureKind(df, spec) = "NoDataAfterFilter")
        => \A e \in FailureExamples :
              FailureKind(e.df, e.spec) \in
                  {"MissingColumn", "NoNumericData", "ValueColumnMissing"}
                  => execute_chart_spec(e.df, e.spec) # result

\* C14: rendering never affects the outcome: once the aggregation succeeded
\* and the value column is present, the aggregated table is returned unchanged
\* whether the chart type is recognized, unrecognized, or the plot raises.
C14_RenderNeverAffectsResult ==
    (ExecDone /\ plot # "")
        => /\ result = Returned(df_agg)
           /\ result = aggregate_dataframe(df_filtered, spec)
           /\ result = execute_chart_spec(df, spec)

\* C14 witness: the plot raised, for an unrecognized chart type among others,
\* and the table was returned
C14_Witness ==
    /\ ExecDone
    /\ plot = "failed"
    /\ spec.chart_type = PyStr("pie")
    /\ result.kind = "table"

StageOrder == <<"filter", "aggregate", "resolve", "plot", "emit">>

\* C16: the stages run in the order Filter, Aggregate, Resolve, (render), Emit,
\* each at most once; after a failure no later stage runs; when filtering
\* leaves zero rows the execution fails without aggregating or rendering; and
\* rendering happens only after the value-column check has passed.
C16_StagesInOrder ==
    call = "execute_chart_spec"
        => /\ Len(stages) <= Len(StageOrder)
           /\ stages = SubSeq(StageOrder, 1, Len(stages))
           /\ result.kind \in {"none", "raise"}
                 => pc = "done" /\ stages # <<>> /\ stages[Len(stages)] # "emit"
           /\ (pc # "filter" /\ apply_filters(df, GetFilters(spec)).table.rows = <<>>)
                 => pc = "done" /\ stages = <<"filter">> /\ result.kind # "table"
           /\ Len(stages) >= 4
                 => /\ value_col = ResolveValueCol(GetAggregation(spec), spec.y)
                    /\ value_col \in Range(df_agg.cols)

\* C16 witness: the filter left no row of a table that had rows, and the
\* execution ended there
C16_Witness ==
    /\ ExecDone
    /\ df.rows # <<>>
    /\ apply_filters(df, GetFilters(spec)).kind = "table"
    /\ stages = <<"filter">>
    /\ result.kind = "none"

\* C15: neither the caller's table nor the chart specification is modified by
\* apply_filters, aggregate_dataframe or execute_chart_spec: no step changes df
\* or spec, the coercion of y and the dropping of rows included.
C15_InputsNotModified == [][df' = df /\ spec' = spec]_vars

\* C15 witness: aggregate_dataframe coerced a text to a number and dropped a
\* row, and the caller's table still holds both texts
C15_Witness ==
    /\ AggregateDone
    /\ spec.aggregation = PyStr("sum")
    /\ spec.y = "price"
    /\ result.kind = "table"
    /\ \E i \in DOMAIN df.rows : df.rows[i]["price"] = Str("10")
    /\ \E i \in DOMAIN df.rows : df.rows[i]["price"] = Str("x")

\* the cells of column c of table t, in row order
ColumnCells(t, c) == [i \in DOMAIN t.rows |-> t.rows[i][c]]

\* C17: for aggregation = sum, the sum of the per-group sums equals the sum of
\* y over the rows of the table whose y coerces to a number; no such row is
\* lost, rows whose x or group_by is null included.
C17_GroupSumsAddUp ==
    (AggregateDone /\ result.kind = "table" /\ IsToken(spec.aggregation)
        /\ Lower(spec.aggregation.s) = "sum")
        => SumCells(ColumnCells(result.table, LastCol(result.table)))
              = SumCells(NonNull([i \in DOMAIN df.rows |-> ToNumeric(df.rows[i][spec.y])]))

\* C17 witness: a row with a null category and a numeric price was summed into
\* a group of its own
C17_Witness ==
    /\ AggregateDone
    /\ spec.aggregation = PyStr("sum")
    /\ spec.x = "category"
    /\ result.kind = "table"
    /\ \E i \in DOMAIN df.rows :
          df.rows[i]["category"] = Null /\ df.rows[i]["price"] = Num(5)
    /\ \E i \in DOMAIN result.table.rows :
          /\ result.table.rows[i]["category"] = Null
          /\ result.table.rows[i]["sum_price"].n > 0
    /\ Len(result.table.rows) > 1

\* group_by is absent, null, empty, no column of the table, or equal to x
NoSecondKey(t, sp) ==
    \/ sp.group_by.t # "str"
    \/ sp.group_by.s = ""
    \/ sp.group_by.s \notin Range(t.cols)
    \/ sp.group_by.s = sp.x

\* C18: the grouping key is [x], extended by group_by only when group_by is
\* present, names a column and differs from x; otherwise the aggregation does
\* not raise and returns what the same specification without group_by returns,
\* one row per distinct x.
C18_GroupByOnlyWhenValid ==
    AggregateDone
        => /\ result.kind # "raise"
           /\ NoSecondKey(df, spec)
                 => /\ result = aggregate_dataframe(df, [spec EXCEPT !.group_by = PyAbsent])
                    /\ (result.kind = "table" /\ IsToken(spec.aggregation))
                          => /\ result.table.cols = <<spec.x, LastCol(result.table)>>
                             /\ Len(result.table.rows)
                                   = Cardinality(ColumnValues(result.table, spec.x))
           /\ (~NoSecondKey(df, spec) /\ result.kind = "table" /\ IsToken(spec.aggregation))
                 => result.table.cols = <<spec.x, spec.group_by.s, LastCol(result.table)>>

\* C18 witness: group_by equal to x was left out of the key, and two groups came
\* out
C18_Witness ==
    /\ AggregateDone
    /\ spec.x = "category"
    /\ spec.group_by = PyStr("category")
    /\ spec.aggregation = PyStr("mean")
    /\ result.kind = "table"
    /\ Len(result.table.rows) = 2

\* C19: concurrent invocations on independent (table, spec) pairs share no
\* state at any step, the plot included: each one draws on and closes only the
\* figure it opened itself, and each returns what it returns when run alone.
C19_InvocationsShareNothing ==
    call = "threads"
        => \A t \in Threads :
              /\ th[t].touched \subseteq {t}
              /\ th[t].pc = "done"
                    => th[t].result = execute_chart_spec(th[t].df, th[t].spec)

\* C20: when execute_chart_spec returns a failure, the caller does not run
\* insight generation or serialise the table on it, and ends with a
\* user-facing failure, not with a fault.
C20_CallersShortCircuit ==
    (call \in Callers /\ result.kind = "none")
        => /\ caller.insights = "not_invoked"
           /\ ~caller.serialized
           /\ pc = "done" => caller.outcome = "user_failure"

====
